---- MODULE Spec2Model ----
(***************************************************************************)
(* Model of the employees API: the generic field-validation engine         *)
(* (utils/validation.js), the employee resource handlers                   *)
(* (routes/employee.js) over the in-memory DATABASE, and the two external  *)
(* calls a create waits for (utils/externalApiUtils.js).                   *)
(*                                                                         *)
(* JavaScript values are records [t |-> typeof, v |-> characters]; a       *)
(* string is the sequence of its characters, so that toLowerCase and       *)
(* toUpperCase are computed character by character.  Objects (request      *)
(* bodies, option bags, stored records) are functions whose DOMAIN is the  *)
(* set of own properties.                                                  *)
(***************************************************************************)
EXTENDS Integers, Sequences, FiniteSets, TLC

VARIABLES DATABASE, inflight, res, vIn, vOut

vars == <<DATABASE, inflight, res, vIn, vOut>>

(***************************************************************************)
(* Bounds of the model.                                                    *)
(***************************************************************************)
\* number of identifiers uuid() can draw
MaxIds == 2
\* number of create requests that may be waiting for their external calls
MaxInflight == 2

Ids == 1..MaxIds
Slots == 1..MaxInflight

(***************************************************************************)
(* JavaScript strings and values.                                          *)
(***************************************************************************)
UpperChars == <<"A","B","C","D","E","F","G","H","I","J","K","L","M",
                "N","O","P","Q","R","S","T","U","V","W","X","Y","Z">>
LowerChars == <<"a","b","c","d","e","f","g","h","i","j","k","l","m",
                "n","o","p","q","r","s","t","u","v","w","x","y","z">>

OtherChars == <<"0","1","2","3","4","5","6","7","8","9","-","/"," ",":","(">>

Range(seq) == {seq[i] : i \in 1..Len(seq)}

\* every character a string of the model is made of
Chars == Range(UpperChars) \cup Range(LowerChars) \cup Range(OtherChars)

\* the lower-case and the upper-case form of each character
LowerOf ==
  [c \in Chars |->
     IF \E i \in 1..Len(UpperChars) : UpperChars[i] = c
     THEN LowerChars[CHOOSE i \in 1..Len(UpperChars) : UpperChars[i] = c]
     ELSE c]
UpperOf ==
  [c \in Chars |->
     IF \E i \in 1..Len(LowerChars) : LowerChars[i] = c
     THEN UpperChars[CHOOSE i \in 1..Len(LowerChars) : LowerChars[i] = c]
     ELSE c]

CharToLower(c) == LowerOf[c]
CharToUpper(c) == UpperOf[c]

\* String.prototype.toLowerCase / toUpperCase on a sequence of characters
toLowerCase(s) == [i \in 1..Len(s) |-> CharToLower(s[i])]
toUpperCase(s) == [i \in 1..Len(s) |-> CharToUpper(s[i])]

Str(s) == [t |-> "string", v |-> s]
Num(s) == [t |-> "number", v |-> s]
Undefined == [t |-> "undefined", v |-> <<>>]

\* typeof x
typeof(x) == x.t

\* truthiness of a string, a number or undefined
Truthy(x) ==
  CASE x.t = "string" -> x.v # <<>>
    [] x.t = "number" -> x.v # <<"0">>
    [] OTHER -> FALSE

\* obj.hasOwnProperty(name) and obj[name]
hasOwnProperty(obj, name) == name \in DOMAIN obj
Get(obj, name) == IF name \in DOMAIN obj THEN obj[name] ELSE Undefined

(***************************************************************************)
(* Validation messages.  A message is a record of the template used        *)
(* (kind), the field name, the offending value, the list echoed by the     *)
(* enumeration message and the data type or format named in the text.      *)
(* None is the `undefined` a validator returns when it has no complaint.   *)
(***************************************************************************)
Msg(kind, field, value, list, text) ==
  [kind |-> kind, field |-> field, value |-> value, list |-> list, text |-> text]

None == Msg("none", "", Undefined, <<>>, "")

\* `Required property [${fieldName}] is missing from the request payload.`
MissingMsg(fieldName) == Msg("missing", fieldName, Undefined, <<>>, "")
\* `The value of property [${fieldName}] is not the correct data type. It should be [${dataType}].`
TypeMsg(fieldName, dataType) == Msg("type", fieldName, Undefined, <<>>, dataType)
\* `The value of property [${fieldName}] is invalid. It should be one of ${allowedValues.join(', ')}.`
EnumMsg(fieldName, allowedValues) == Msg("enum", fieldName, Undefined, allowedValues, "")
\* `The value [${value}] for property [${fieldName}] is invalid. The required format is [${format}].`
FormatMsg(fieldName, value) == Msg("format", fieldName, value, <<>>, "YYYY-MM-DD")
\* `The value [${value}] for property [${fieldName}] is invalid, because it is in the future.`
FutureMsg(fieldName, value) == Msg("future", fieldName, value, <<>>, "")
\* 'This employee cannot be created because there is already an employee with the [CEO] role ...'
CeoMsg == Msg("ceo", "", Undefined, <<>>, "")
\* a generic custom predicate's complaint
CustomFailMsg(fieldName) == Msg("customfail", fieldName, Undefined, <<>>, "")
\* value.toLowerCase is not a function: the predicate throws a TypeError
TypeErrorThrown == Msg("TypeError", "", Undefined, <<>>, "")

(***************************************************************************)
(* moment(value, 'YYYY-MM-DD', true): strict parsing of a calendar date,   *)
(* and its comparison with the current time.                               *)
(***************************************************************************)
DigitChars == <<"0","1","2","3","4","5","6","7","8","9">>
Digits == Range(DigitChars)
IsDigit(c) == c \in Digits
DigitValue == [c \in Digits |-> (CHOOSE i \in 1..Len(DigitChars) : DigitChars[i] = c) - 1]
DigitVal(c) == DigitValue[c]

\* the date moment() returns when the request is validated
Today == <<2026, 11, 4>>

IsLeapYear(y) == (y % 4 = 0 /\ y % 100 # 0) \/ y % 400 = 0
DaysInMonth(y, m) ==
  CASE m \in {4, 6, 9, 11} -> 30
    [] m = 2 -> IF IsLeapYear(y) THEN 29 ELSE 28
    [] OTHER -> 31

HasDateShape(s) ==
  /\ Len(s) = 10
  /\ s[5] = "-" /\ s[8] = "-"
  /\ \A i \in {1, 2, 3, 4, 6, 7, 9, 10} : IsDigit(s[i])

DateYear(s) == 1000 * DigitVal(s[1]) + 100 * DigitVal(s[2]) + 10 * DigitVal(s[3]) + DigitVal(s[4])
DateMonth(s) == 10 * DigitVal(s[6]) + DigitVal(s[7])
DateDay(s) == 10 * DigitVal(s[9]) + DigitVal(s[10])

\* momentObj.isValid(); a non-string input is stringified and fails the format
momentIsValid(value) ==
  /\ value.t = "string"
  /\ HasDateShape(value.v)
  /\ DateMonth(value.v) \in 1..12
  /\ DateDay(value.v) \in 1..DaysInMonth(DateYear(value.v), DateMonth(value.v))

\* momentObj.isAfter(moment()): midnight of the date is later than now
momentIsAfterNow(value) ==
  LET y == DateYear(value.v)  m == DateMonth(value.v)  d == DateDay(value.v) IN
  \/ y > Today[1]
  \/ y = Today[1] /\ m > Today[2]
  \/ y = Today[1] /\ m = Today[2] /\ d > Today[3]

(***************************************************************************)
(* The custom predicates of the employee schema.                           *)
(***************************************************************************)
\* hireDate.custom
hireDateCustom(fieldName, value) ==
  IF ~momentIsValid(value) THEN FormatMsg(fieldName, value)
  ELSE IF momentIsAfterNow(value) THEN FutureMsg(fieldName, value)
  ELSE None

ceoRole == <<"c","e","o">>

\* ceoExists comparing the stored role as it is, not its lower-case form
ceoExists_StoredCase(db) == \E id \in DOMAIN db : db[id].role.v = ceoRole

\* Object.keys(DATABASE).find((id) => DATABASE[id].role.toLowerCase() === ceoRole)
ceoExists(db) == \E id \in DOMAIN db : toLowerCase(db[id].role.v) = ceoRole

\* role.custom comparing the candidate role as it is, not its lower-case form
roleCustom_CandidateCase(fieldName, value, db) ==
  IF value.t # "string" THEN TypeErrorThrown
  ELSE IF value.v = ceoRole /\ ceoExists(db) THEN CeoMsg
  ELSE None

\* role.custom, reading the store `db` as it is when the predicate runs
roleCustom(fieldName, value, db) ==
  IF value.t # "string" THEN TypeErrorThrown
  ELSE IF toLowerCase(value.v) = ceoRole /\ ceoExists(db) THEN CeoMsg
  ELSE None

\* options.custom(fieldName, value): the predicate an option bag carries
CustomApply(custom, fieldName, value, db) ==
  CASE custom = "hireDate" -> hireDateCustom(fieldName, value)
    [] custom = "role" -> roleCustom(fieldName, value, db)
    [] custom = "fail" -> CustomFailMsg(fieldName)
    [] OTHER -> None

(***************************************************************************)
(* utils/validation.js                                                     *)
(***************************************************************************)
validateFieldExistence(obj, fieldName) ==
  IF ~hasOwnProperty(obj, fieldName) THEN MissingMsg(fieldName) ELSE None

validateFieldType(obj, fieldName, dataType) ==
  IF typeof(Get(obj, fieldName)) # dataType THEN TypeMsg(fieldName, dataType) ELSE None

\* validateFieldValueEnum lower-casing the field's value only
validateFieldValueEnum_ValueOnly(obj, fieldName, allowedValues, caseSensitive) ==
  LET value == Get(obj, fieldName)
      updatedFieldValue ==
        IF ~caseSensitive /\ typeof(value) = "string"
        THEN Str(toLowerCase(value.v)) ELSE value
  IN IF \A i \in 1..Len(allowedValues) : allowedValues[i] # updatedFieldValue
     THEN EnumMsg(fieldName, allowedValues)
     ELSE None

validateFieldValueEnum(obj, fieldName, allowedValues, caseSensitive) ==
  LET lowered(x) == IF typeof(x) = "string" THEN Str(toLowerCase(x.v)) ELSE x
      updatedAllowedValues ==
        IF ~caseSensitive
        THEN [i \in 1..Len(allowedValues) |-> lowered(allowedValues[i])]
        ELSE allowedValues
      updatedFieldValue ==
        IF ~caseSensitive THEN lowered(Get(obj, fieldName)) ELSE Get(obj, fieldName)
  IN IF \A i \in 1..Len(updatedAllowedValues) : updatedAllowedValues[i] # updatedFieldValue
     THEN EnumMsg(fieldName, allowedValues)
     ELSE None

\* a `required` option: a fixed boolean b, or an object m of per-verb booleans
ReqBool(b) == [k |-> "bool", b |-> b, m |-> <<>>]
ReqMap(m) == [k |-> "map", b |-> TRUE, m |-> m]

\* isRequired looking the verb up as it came, without toLowerCase
isRequired_VerbAsIs(options) ==
  IF /\ "required" \in DOMAIN options
     /\ (options.required.k = "map" \/ options.required.b)
     /\ "reqMethod" \in DOMAIN options
     /\ options.reqMethod # <<>>
  THEN IF /\ options.required.k = "map"
          /\ options.reqMethod \in DOMAIN options.required.m
       THEN options.required.m[options.reqMethod]
       ELSE TRUE
  ELSE TRUE

\* isRequired taking a boolean `required` at its word
isRequired_HonorBoolean(options) ==
  IF "required" \in DOMAIN options /\ options.required.k = "bool"
  THEN options.required.b
  ELSE IF /\ "required" \in DOMAIN options
          /\ "reqMethod" \in DOMAIN options
          /\ options.reqMethod # <<>>
          /\ toLowerCase(options.reqMethod) \in DOMAIN options.required.m
       THEN options.required.m[toLowerCase(options.reqMethod)]
       ELSE TRUE

\* the first lines of validateField: the requiredness it resolves
isRequired(options) ==
  IF /\ "required" \in DOMAIN options
     /\ (options.required.k = "map" \/ options.required.b)
     /\ "reqMethod" \in DOMAIN options
     /\ options.reqMethod # <<>>
  THEN IF /\ options.required.k = "map"
          /\ toLowerCase(options.reqMethod) \in DOMAIN options.required.m
       THEN options.required.m[toLowerCase(options.reqMethod)]
       ELSE TRUE
  ELSE TRUE

\* validateField without the early return for an absent optional field
validateField_NoSkip(obj, fieldName, options, db) ==
  LET existence == validateFieldExistence(obj, fieldName)
      dataType ==
        IF "dataType" \in DOMAIN options
        THEN validateFieldType(obj, fieldName, options.dataType) ELSE None
      caseSensitive ==
        IF "allowedValuesCaseSensitive" \in DOMAIN options
        THEN options.allowedValuesCaseSensitive ELSE TRUE
      allowedValues ==
        IF "allowedValues" \in DOMAIN options
        THEN validateFieldValueEnum(obj, fieldName, options.allowedValues, caseSensitive)
        ELSE None
      custom ==
        IF "custom" \in DOMAIN options
        THEN CustomApply(options.custom, fieldName, Get(obj, fieldName), db) ELSE None
      t1 == <<"existence">>
      t2 == IF "dataType" \in DOMAIN options THEN Append(t1, "type") ELSE t1
      t3 == IF "allowedValues" \in DOMAIN options THEN Append(t2, "enum") ELSE t2
      t4 == IF "custom" \in DOMAIN options THEN Append(t3, "custom") ELSE t3
  IN IF existence # None /\ isRequired(options)
     THEN [result |-> existence, trace |-> t1]
     ELSE IF dataType # None THEN [result |-> dataType, trace |-> t2]
     ELSE IF allowedValues # None THEN [result |-> allowedValues, trace |-> t3]
     ELSE [result |-> custom, trace |-> t4]

\* validateField calling the custom predicate before the type and enumeration checks
validateField_CustomFirst(obj, fieldName, options, db) ==
  LET existence == validateFieldExistence(obj, fieldName)
      dataType ==
        IF "dataType" \in DOMAIN options
        THEN validateFieldType(obj, fieldName, options.dataType) ELSE None
      caseSensitive ==
        IF "allowedValuesCaseSensitive" \in DOMAIN options
        THEN options.allowedValuesCaseSensitive ELSE TRUE
      allowedValues ==
        IF "allowedValues" \in DOMAIN options
        THEN validateFieldValueEnum(obj, fieldName, options.allowedValues, caseSensitive)
        ELSE None
      custom ==
        IF "custom" \in DOMAIN options
        THEN CustomApply(options.custom, fieldName, Get(obj, fieldName), db) ELSE None
      t1 == <<"existence">>
      t2 == IF "custom" \in DOMAIN options THEN Append(t1, "custom") ELSE t1
      t3 == IF "dataType" \in DOMAIN options THEN Append(t2, "type") ELSE t2
      t4 == IF "allowedValues" \in DOMAIN options THEN Append(t3, "enum") ELSE t3
  IN IF existence # None
     THEN [result |-> IF isRequired(options) THEN existence ELSE None, trace |-> t1]
     ELSE IF custom # None THEN [result |-> custom, trace |-> t2]
     ELSE IF dataType # None THEN [result |-> dataType, trace |-> t3]
     ELSE [result |-> allowedValues, trace |-> t4]

\* validateField: the message returned (None for undefined) and the checks
\* that were called, in call order
validateField(obj, fieldName, options, db) ==
  LET existence == validateFieldExistence(obj, fieldName)
      dataType ==
        IF "dataType" \in DOMAIN options
        THEN validateFieldType(obj, fieldName, options.dataType) ELSE None
      caseSensitive ==
        IF "allowedValuesCaseSensitive" \in DOMAIN options
        THEN options.allowedValuesCaseSensitive ELSE TRUE
      allowedValues ==
        IF "allowedValues" \in DOMAIN options
        THEN validateFieldValueEnum(obj, fieldName, options.allowedValues, caseSensitive)
        ELSE None
      custom ==
        IF "custom" \in DOMAIN options
        THEN CustomApply(options.custom, fieldName, Get(obj, fieldName), db) ELSE None
      t1 == <<"existence">>
      t2 == IF "dataType" \in DOMAIN options THEN Append(t1, "type") ELSE t1
      t3 == IF "allowedValues" \in DOMAIN options THEN Append(t2, "enum") ELSE t2
      t4 == IF "custom" \in DOMAIN options THEN Append(t3, "custom") ELSE t3
  IN IF existence # None
     THEN [result |-> IF isRequired(options) THEN existence ELSE None, trace |-> t1]
     ELSE IF dataType # None THEN [result |-> dataType, trace |-> t2]
     ELSE IF allowedValues # None THEN [result |-> allowedValues, trace |-> t3]
     ELSE [result |-> custom, trace |-> t4]

(***************************************************************************)
(* routes/employee.js: the employee schema and its use.                    *)
(***************************************************************************)
POST == <<"P","O","S","T">>
PUT == <<"P","U","T">>
post == <<"p","o","s","t">>
put == <<"p","u","t">>

CEO == <<"C","E","O">>
VP == <<"V","P">>
MANAGER == <<"M","A","N","A","G","E","R">>
LACKEY == <<"L","A","C","K","E","Y">>

roleAllowedValues == <<Str(CEO), Str(VP), Str(MANAGER), Str(LACKEY)>>

\* required: { post: false, put: true }
requiredOnPut == ReqMap((post :> FALSE) @@ (put :> TRUE))

employeeFieldValidations ==
  << [fieldName |-> "firstName", options |-> [dataType |-> "string"]],
     [fieldName |-> "lastName",  options |-> [dataType |-> "string"]],
     [fieldName |-> "hireDate",  options |-> [dataType |-> "string", custom |-> "hireDate"]],
     [fieldName |-> "role",
      options |-> [dataType |-> "string", allowedValues |-> roleAllowedValues,
                   allowedValuesCaseSensitive |-> FALSE, custom |-> "role"]],
     [fieldName |-> "quote", options |-> [dataType |-> "string", required |-> requiredOnPut]],
     [fieldName |-> "joke",  options |-> [dataType |-> "string", required |-> requiredOnPut]] >>

\* { ...validation.options, reqMethod: req.method }
withReqMethod(options, method) == ("reqMethod" :> method) @@ options

\* the calls one field's validation made, labelled with the field
fieldTrace(fieldName, trace) ==
  [i \in 1..Len(trace) |-> [field |-> fieldName, check |-> trace[i]]]

\* the rest of the loop's outcome, after the calls `here` of a valid field
afterValid(here, rest) == [result |-> rest.result, trace |-> here \o rest.trace]

\* the loop of validateEmployee from index i on, over the schema `validations`:
\* validateFrom validates field i, afterField looks at the answer isInvalid
RECURSIVE validateFrom(_, _, _, _, _)
RECURSIVE afterField(_, _, _, _, _, _)
\* afterField without the return that follows a failed field: the loop goes
\* on and a later failure replaces the message
afterField_KeepGoing(validations, i, body, method, db, isInvalid) ==
  LET here == fieldTrace(validations[i].fieldName, isInvalid.trace)
      rest == validateFrom(validations, i + 1, body, method, db)
  IN [result |-> IF rest.result # None THEN rest.result ELSE isInvalid.result,
      trace |-> here \o rest.trace]

afterField(validations, i, body, method, db, isInvalid) ==
  IF isInvalid.result # None
  THEN [result |-> isInvalid.result,
        trace |-> fieldTrace(validations[i].fieldName, isInvalid.trace)]
  ELSE afterValid(fieldTrace(validations[i].fieldName, isInvalid.trace),
                  validateFrom(validations, i + 1, body, method, db))

validateFrom(validations, i, body, method, db) ==
  IF i > Len(validations) THEN [result |-> None, trace |-> <<>>]
  ELSE afterField(validations, i, body, method, db,
                  validateField(body, validations[i].fieldName,
                                withReqMethod(validations[i].options, method), db))

\* validateEmployee(req, res): the first message found (None when the payload
\* is valid) and every check called on the way
validateEmployee(body, method, db) ==
  validateFrom(employeeFieldValidations, 1, body, method, db)

\* createDatabaseEntryFromReqBody keeping the role as the payload spelt it
createDatabaseEntryFromReqBody_RoleAsGiven(reqBody) ==
  LET result == [firstName |-> Get(reqBody, "firstName"),
                 lastName |-> Get(reqBody, "lastName"),
                 hireDate |-> Get(reqBody, "hireDate"),
                 role |-> Get(reqBody, "role")]
      withQuote == IF Truthy(Get(reqBody, "quote"))
                   THEN ("quote" :> reqBody.quote) @@ result ELSE result
  IN IF Truthy(Get(reqBody, "joke")) THEN ("joke" :> reqBody.joke) @@ withQuote ELSE withQuote

createDatabaseEntryFromReqBody(reqBody) ==
  LET result == [firstName |-> Get(reqBody, "firstName"),
                 lastName |-> Get(reqBody, "lastName"),
                 hireDate |-> Get(reqBody, "hireDate"),
                 role |-> Str(toUpperCase(Get(reqBody, "role").v))]
      withQuote == IF Truthy(Get(reqBody, "quote"))
                   THEN ("quote" :> reqBody.quote) @@ result ELSE result
  IN IF Truthy(Get(reqBody, "joke")) THEN ("joke" :> reqBody.joke) @@ withQuote ELSE withQuote

(***************************************************************************)
(* utils/externalApiUtils.js: what each call resolves with, given the      *)
(* HTTP exchange with the third party.  An exchange is a 200 with a        *)
(* well-formed body ("ok", carrying the string), a 200 with a body of the  *)
(* wrong shape ("malformed"), or a failure that rejects axios' promise     *)
(* ("error").  A third party that never answers is no exchange at all.     *)
(***************************************************************************)
NoQuoteFound == <<"N","o"," ","q","u","o","t","e"," ","f","o","u","n","d"," ",":","(">>
NoJokeFound == <<"N","o"," ","j","o","k","e"," ","f","o","u","n","d"," ",":","(">>

getRandomRonSwansonQuote(response) ==
  IF response.kind = "ok" THEN response.data ELSE Str(NoQuoteFound)

getRandomDadJoke(response) ==
  IF response.kind = "ok" THEN response.data ELSE Str(NoJokeFound)

QuoteResponses ==
  { [kind |-> "ok", data |-> Str(<<"Q">>)], [kind |-> "malformed", data |-> Undefined],
    [kind |-> "error", data |-> Undefined] }
JokeResponses ==
  { [kind |-> "ok", data |-> Str(<<"J">>)], [kind |-> "malformed", data |-> Undefined],
    [kind |-> "error", data |-> Undefined] }

(***************************************************************************)
(* Request bodies.  Absent marks a property the body does not have.        *)
(***************************************************************************)
Absent == [t |-> "absent", v |-> <<>>]

FieldNames == <<"firstName", "lastName", "hireDate", "role", "quote", "joke">>

\* the body with the given values, without the properties marked Absent
Body(firstName, lastName, hireDate, role, quote, joke) ==
  LET all == [firstName |-> firstName, lastName |-> lastName, hireDate |-> hireDate,
              role |-> role, quote |-> quote, joke |-> joke]
  IN [f \in {g \in DOMAIN all : all[g] # Absent} |-> all[f]]

PastDate == Str(<<"2","0","2","0","-","0","3","-","0","1">>)
FutureDate == Str(<<"2","9","9","9","-","0","1","-","0","1">>)
BadDate == Str(<<"0","3","/","0","1","/","2","0","2","0">>)
NoSuchDate == Str(<<"2","0","2","1","-","0","2","-","2","9">>)

nameA == Str(<<"A">>)
nameB == Str(<<"B">>)
quoteQ == Str(<<"q">>)
jokeJ == Str(<<"j">>)
five == Num(<<"5">>)

\* bodies that pass validation on a POST; those with a quote and a joke pass
\* it on a PUT as well
GoodBodies ==
  { Body(nameA, nameB, PastDate, Str(CEO), Absent, Absent),
    Body(nameA, nameB, PastDate, Str(<<"c","e","o">>), quoteQ, jokeJ),
    Body(nameA, nameB, PastDate, Str(<<"C","e","O">>), Absent, Absent),
    Body(nameA, nameB, PastDate, Str(VP), Absent, Absent),
    Body(nameA, nameB, PastDate, Str(VP), quoteQ, jokeJ),
    Body(nameA, nameB, PastDate, Str(<<"v","p">>), Str(<<>>), jokeJ) }

\* bodies with one or several invalid fields
BadBodies ==
  { Body(Absent, five, FutureDate, Str(VP), Absent, Absent),
    Body(nameA, nameB, PastDate, Str(<<"L","A","C","K","E","Y","X">>), five, jokeJ),
    Body(nameA, nameB, FutureDate, Str(<<"c","e","o">>), quoteQ, jokeJ),
    Body(nameA, nameB, PastDate, Str(CEO), five, jokeJ) }

Bodies == GoodBodies \cup BadBodies

(***************************************************************************)
(* The server.                                                             *)
(*   DATABASE  the in-memory store: identifier -> stored record            *)
(*   inflight  the create requests that passed validation and wait for     *)
(*             their external calls: what their promise chain holds        *)
(*   res       the response sent last                                      *)
(***************************************************************************)
NoRecord == <<>>

IdleSlot == [pc |-> "idle", reqBody |-> NoRecord, newEmployee |-> NoRecord, newId |-> 0]

\* a response: the handler that sent it, its status, the message of a 400 and
\* the identifier it names (in the Location header of a 201, else the :id asked)
Response(op, status, msg, id) == [op |-> op, status |-> status, msg |-> msg, id |-> id]

NoResponse == Response("none", 0, None, 0)

\* router.get('/:id'): the status and the record a GET of `id` is answered with
getById(db, id) ==
  IF id \in DOMAIN db
  THEN [status |-> 200, record |-> db[id], id |-> id]
  ELSE [status |-> 404, record |-> NoRecord, id |-> id]

\* no promise callback is queued: the event loop is free to take a new event
NoMicrotask == \A s \in Slots : inflight[s].pc # "finally"

\* every create has been answered
Quiet == \A s \in Slots : inflight[s].pc = "idle"

InFlight == {s \in Slots : inflight[s].pc # "idle"}

\* the model has an identifier left for one more create
RoomForCreate ==
  /\ \E s \in Slots : inflight[s].pc = "idle"
  /\ Cardinality(DOMAIN DATABASE) + Cardinality(InFlight) < MaxIds

FreeSlot == CHOOSE s \in Slots : inflight[s].pc = "idle" /\ \A t \in Slots : inflight[t].pc = "idle" => s <= t

\* router.get(''): the list of the stored records with their identifiers
List ==
  /\ NoMicrotask
  /\ res' = Response("LIST", 200, None, 0)
  /\ UNCHANGED <<DATABASE, inflight, vIn, vOut>>

\* router.get('/:id'): res keeps the status line of the answer
GetById(id) ==
  /\ NoMicrotask
  /\ res' = Response("GET", getById(DATABASE, id).status, None, id)
  /\ UNCHANGED <<DATABASE, inflight, vIn, vOut>>

\* router.post without the return that follows a failed validation: the 400
\* is sent and the chain starts all the same
routerPost_NoReturn(reqBody, db) ==
  LET isValid == validateEmployee(reqBody, POST, db) IN
  [sent |-> isValid.result # None,
   res |-> IF isValid.result # None
           THEN Response("POST", 400, isValid.result, 0) ELSE NoResponse,
   db |-> db,
   chain |-> [pc |-> "getQuote", reqBody |-> reqBody,
              newEmployee |-> createDatabaseEntryFromReqBody(reqBody), newId |-> 0]]

\* router.post(''), up to the call of getQuote: what the handler does to a
\* request body when the store is `db`.  Either it answers 400 at once (sent),
\* or it starts the promise chain that will store the record (chain); it does
\* not write to the store itself.
routerPost(reqBody, db) ==
  LET isValid == validateEmployee(reqBody, POST, db) IN
  IF isValid.result = TypeErrorThrown
  THEN [sent |-> TRUE, res |-> Response("POST", 500, None, 0), db |-> db, chain |-> IdleSlot]
  ELSE IF isValid.result # None
  THEN [sent |-> TRUE, res |-> Response("POST", 400, isValid.result, 0),
        db |-> db, chain |-> IdleSlot]
  ELSE [sent |-> FALSE, res |-> NoResponse, db |-> db,
        chain |-> [pc |-> "getQuote", reqBody |-> reqBody,
                   newEmployee |-> createDatabaseEntryFromReqBody(reqBody),
                   newId |-> 0]]

PostHandler(reqBody) ==
  \E out \in {routerPost(reqBody, DATABASE)} :
  /\ NoMicrotask
  /\ DATABASE' = out.db
  /\ IF out.sent
     THEN /\ res' = out.res
          /\ UNCHANGED inflight
     ELSE /\ RoomForCreate
          /\ inflight' = [inflight EXCEPT ![FreeSlot] = out.chain]
          /\ UNCHANGED res

\* the first .then keeping a quote the payload brought along
QuoteResolved_KeepPayload(s, response) ==
  /\ NoMicrotask
  /\ inflight[s].pc = "getQuote"
  /\ inflight' = [inflight EXCEPT ![s].pc = "getJoke",
                    ![s].newEmployee = @ @@ ("quote" :> getRandomRonSwansonQuote(response))]
  /\ UNCHANGED <<DATABASE, res, vIn, vOut>>

\* the first .then of router.post: getQuote resolved, getJoke is called
QuoteResolved(s, response) ==
  /\ NoMicrotask
  /\ inflight[s].pc = "getQuote"
  /\ inflight' = [inflight EXCEPT ![s].pc = "getJoke",
                    ![s].newEmployee = ("quote" :> getRandomRonSwansonQuote(response)) @@ @]
  /\ UNCHANGED <<DATABASE, res, vIn, vOut>>

\* the second .then remembering the first uuid drawn, not the one the
\* collision loop ended with
JokeResolved_FirstDraw(s, response, newId) ==
  LET joke == getRandomDadJoke(response) IN
  /\ NoMicrotask
  /\ inflight[s].pc = "getJoke"
  /\ newId \notin DOMAIN DATABASE
  /\ DATABASE' = (newId :> (("joke" :> joke) @@ inflight[s].newEmployee)) @@ DATABASE
  /\ \E first \in Ids :
        inflight' = [inflight EXCEPT ![s].pc = "finally", ![s].newId = first,
                       ![s].newEmployee = ("joke" :> joke) @@ @]
  /\ UNCHANGED <<res, vIn, vOut>>

\* the second .then without the collision loop: the record is stored under
\* the first uuid drawn, a key of DATABASE or not
JokeResolved_NoRetry(s, response, newId) ==
  LET joke == getRandomDadJoke(response) IN
  /\ NoMicrotask
  /\ inflight[s].pc = "getJoke"
  /\ DATABASE' = (newId :> (("joke" :> joke) @@ inflight[s].newEmployee)) @@ DATABASE
  /\ inflight' = [inflight EXCEPT ![s].pc = "finally", ![s].newId = newId,
                    ![s].newEmployee = ("joke" :> joke) @@ @]
  /\ UNCHANGED <<res, vIn, vOut>>

\* the second .then of router.post: getJoke resolved, the record is stored
\* under a uuid that is not a key of DATABASE
JokeResolved(s, response, newId) ==
  LET joke == getRandomDadJoke(response) IN
  /\ NoMicrotask
  /\ inflight[s].pc = "getJoke"
  /\ newId \notin DOMAIN DATABASE
  /\ DATABASE' = (newId :> (("joke" :> joke) @@ inflight[s].newEmployee)) @@ DATABASE
  /\ inflight' = [inflight EXCEPT ![s].pc = "finally", ![s].newId = newId,
                    ![s].newEmployee = ("joke" :> joke) @@ @]
  /\ UNCHANGED <<res, vIn, vOut>>

\* the .finally of router.post: 201 with the Location of newId
postFinally(chain) == Response("POST", 201, None, chain.newId)

PostFinally(s) ==
  /\ inflight[s].pc = "finally"
  /\ res' = postFinally(inflight[s])
  /\ inflight' = [inflight EXCEPT ![s] = IdleSlot]
  /\ UNCHANGED <<DATABASE, vIn, vOut>>

\* router.put storing the request body itself, not the entry made from it
routerPut_StoreBody(id, reqBody, db) ==
  LET isValid == validateEmployee(reqBody, PUT, db) IN
  IF id \notin DOMAIN db
  THEN [res |-> Response("PUT", 404, None, id), db |-> db]
  ELSE IF isValid.result # None
  THEN [res |-> Response("PUT", 400, isValid.result, 0), db |-> db]
  ELSE [res |-> Response("PUT", 204, None, 0), db |-> [db EXCEPT ![id] = reqBody]]

\* router.put validating the payload before it looks the identifier up
routerPut_ValidateFirst(id, reqBody, db) ==
  LET isValid == validateEmployee(reqBody, PUT, db) IN
  IF isValid.result # None
  THEN [res |-> Response("PUT", 400, isValid.result, 0), db |-> db]
  ELSE IF id \notin DOMAIN db
  THEN [res |-> Response("PUT", 404, None, id), db |-> db]
  ELSE [res |-> Response("PUT", 204, None, 0),
        db |-> [db EXCEPT ![id] = createDatabaseEntryFromReqBody(reqBody)]]

\* router.put('/:id'): the answer and the store after a PUT of reqBody to id
routerPut(id, reqBody, db) ==
  LET isValid == validateEmployee(reqBody, PUT, db) IN
  IF id \notin DOMAIN db
  THEN [res |-> Response("PUT", 404, None, id), db |-> db]
  ELSE IF isValid.result = TypeErrorThrown
  THEN [res |-> Response("PUT", 500, None, 0), db |-> db]
  ELSE IF isValid.result # None
  THEN [res |-> Response("PUT", 400, isValid.result, 0), db |-> db]
  ELSE [res |-> Response("PUT", 204, None, 0),
        db |-> [db EXCEPT ![id] = createDatabaseEntryFromReqBody(reqBody)]]

PutHandler(id, reqBody) ==
  \E out \in {routerPut(id, reqBody, DATABASE)} :
  /\ NoMicrotask
  /\ DATABASE' = out.db
  /\ res' = out.res
  /\ UNCHANGED inflight

\* router.delete answering 404 for an identifier that is not stored
routerDelete_NotFound(id, db) ==
  [res |-> Response("DELETE", IF id \in DOMAIN db THEN 204 ELSE 404, None, 0),
   db |-> [i \in DOMAIN db \ {id} |-> db[i]]]

\* router.delete('/:id'): the answer and the store after a DELETE of id
routerDelete(id, db) ==
  [res |-> Response("DELETE", 204, None, 0),
   db |-> [i \in DOMAIN db \ {id} |-> db[i]]]

DeleteHandler(id) ==
  \E out \in {routerDelete(id, DATABASE)} :
  /\ NoMicrotask
  /\ DATABASE' = out.db
  /\ res' = out.res
  /\ UNCHANGED <<inflight, vIn, vOut>>

(***************************************************************************)
(* vIn and vOut serve the specification VSpec below, which applies the     *)
(* validation engine to inputs drawn from bounded sets; the server leaves  *)
(* them alone.                                                             *)
(***************************************************************************)
NoInput ==
  [kind |-> "none", obj |-> NoRecord, fieldName |-> "", options |-> NoRecord,
   method |-> <<>>, id |-> 0, db |-> NoRecord]
NoOutput == [result |-> None, trace |-> <<>>]

Init ==
  /\ DATABASE = <<>>
  /\ inflight = [s \in Slots |-> IdleSlot]
  /\ res = NoResponse
  /\ vIn = NoInput
  /\ vOut = NoOutput

\* a request arrives and its handler runs
Request ==
  \/ List
  \/ \E id \in Ids : GetById(id)
  \/ \E reqBody \in Bodies : PostHandler(reqBody) /\ UNCHANGED <<vIn, vOut>>
  \/ \E id \in Ids, reqBody \in Bodies : PutHandler(id, reqBody) /\ UNCHANGED <<vIn, vOut>>
  \/ \E id \in Ids : DeleteHandler(id)

\* a promise callback of a create in flight runs
Continue ==
  \/ \E s \in Slots, response \in QuoteResponses : QuoteResolved(s, response)
  \/ \E s \in Slots, response \in JokeResponses, newId \in Ids : JokeResolved(s, response, newId)
  \/ \E s \in Slots : PostFinally(s)

Next == Request \/ Continue

\* requests overlap: a handler may run while creates wait for their calls
Spec == Init /\ [][Next]_vars

\* each request is handled to completion before the next one starts
SeqNext ==
  \/ Quiet /\ List
  \/ \E id \in Ids : Quiet /\ GetById(id)
  \/ \E reqBody \in Bodies : Quiet /\ PostHandler(reqBody) /\ UNCHANGED <<vIn, vOut>>
  \/ \E id \in Ids, reqBody \in Bodies :
        Quiet /\ PutHandler(id, reqBody) /\ UNCHANGED <<vIn, vOut>>
  \/ \E id \in Ids : Quiet /\ DeleteHandler(id)
  \/ Continue

SeqSpec == Init /\ [][SeqNext]_vars

(***************************************************************************)
(* LiveSpec: the server with third parties that may stay silent.  Both     *)
(* calls are axios.get(url) with no timeout option, so the promise of an   *)
(* exchange that never answers stays pending: neither .then nor .catch of  *)
(* the call runs, and so neither do the callbacks chained in router.post.  *)
(* What node guarantees is that the callback of a settled promise runs:    *)
(* every exchange meets its fate (an answer of some kind, or silence) and  *)
(* every queued .finally runs.                                             *)
(***************************************************************************)
\* the quote service never answers the call of create s
QuoteUnanswered(s) ==
  /\ NoMicrotask
  /\ inflight[s].pc = "getQuote"
  /\ inflight' = [inflight EXCEPT ![s].pc = "pending"]
  /\ UNCHANGED <<DATABASE, res, vIn, vOut>>

\* the joke service never answers the call of create s
JokeUnanswered(s) ==
  /\ NoMicrotask
  /\ inflight[s].pc = "getJoke"
  /\ inflight' = [inflight EXCEPT ![s].pc = "pending"]
  /\ UNCHANGED <<DATABASE, res, vIn, vOut>>

\* no create is on its way: each one was answered or waits for ever
Settled == \A s \in Slots : inflight[s].pc \in {"idle", "pending"}

\* requests come one at a time; a create that is left without an answer does
\* not keep the server from taking the next request
LiveNext ==
  \/ Settled /\ Request
  \/ Continue
  \/ \E s \in Slots : QuoteUnanswered(s)
  \/ \E s \in Slots : JokeUnanswered(s)

Fairness ==
  \A s \in Slots :
    /\ WF_vars((\E response \in QuoteResponses : QuoteResolved(s, response))
                 \/ QuoteUnanswered(s))
    /\ WF_vars((\E response \in JokeResponses, newId \in Ids : JokeResolved(s, response, newId))
                 \/ JokeUnanswered(s))
    /\ WF_vars(PostFinally(s))

LiveSpec == Init /\ [][LiveNext]_vars /\ Fairness

(***************************************************************************)
(* VSpec: the validation engine on its own.  The initial state draws a     *)
(* store the server can reach and one input: either an object, a field     *)
(* name and an option bag for validateField, or a request (verb, :id,      *)
(* body) for the POST and PUT handlers.  One step applies it.              *)
(***************************************************************************)
\* the record a create of `reqBody` stores when both third parties fail
StoredBy(reqBody) ==
  ("joke" :> Str(NoJokeFound)) @@ ("quote" :> Str(NoQuoteFound))
    @@ createDatabaseEntryFromReqBody(reqBody)

VStores ==
  { <<>>,
    1 :> StoredBy(Body(nameA, nameB, PastDate, Str(<<"c","e","o">>), Absent, Absent)),
    1 :> StoredBy(Body(nameA, nameB, PastDate, Str(VP), Absent, Absent)) }

\* an option bag with the options given (a tuple of length 0 is an option left out)
Bag(dataType, allowedValues, caseSensitive, custom, required, reqMethod) ==
  (IF dataType # <<>> THEN "dataType" :> dataType[1] ELSE <<>>)
  @@ (IF allowedValues # <<>> THEN "allowedValues" :> allowedValues[1] ELSE <<>>)
  @@ (IF caseSensitive # <<>> THEN "allowedValuesCaseSensitive" :> caseSensitive[1] ELSE <<>>)
  @@ (IF custom # <<>> THEN "custom" :> custom[1] ELSE <<>>)
  @@ (IF required # <<>> THEN "required" :> required[1] ELSE <<>>)
  @@ (IF reqMethod # <<>> THEN "reqMethod" :> reqMethod[1] ELSE <<>>)

VRequired ==
  { <<>>, <<ReqBool(TRUE)>>, <<ReqBool(FALSE)>>, <<requiredOnPut>>,
    <<ReqMap(post :> TRUE)>>, <<ReqMap(put :> FALSE)>>, <<ReqMap(<<>>)>> }

VOptions ==
  { Bag(dt, av, cs, cu, rq, m) :
      dt \in {<<>>, <<"string">>, <<"number">>},
      av \in {<<>>, <<roleAllowedValues>>, <<(<<Str(<<"c","e","o">>), five>>)>>},
      cs \in {<<>>, <<TRUE>>, <<FALSE>>},
      cu \in {<<>>, <<"pass">>, <<"fail">>, <<"role">>},
      rq \in VRequired,
      m \in {<<>>, <<POST>>, <<PUT>>, <<(<<"P","o","s","t">>)>>} }

VValues ==
  { Absent, Str(CEO), Str(<<"c","e","o">>), Str(<<"C","e","O">>), Str(VP),
    Str(<<"v","p">>), five }

\* an object with an unrelated property, and `fieldName` unless value is Absent
ObjWith(fieldName, value) ==
  IF value = Absent THEN [other |-> nameA] ELSE (fieldName :> value) @@ [other |-> nameA]

FieldInputs ==
  { [kind |-> "field", obj |-> ObjWith("role", v), fieldName |-> "role", options |-> o,
     method |-> <<>>, id |-> 0, db |-> db] :
      v \in VValues, o \in VOptions, db \in {d \in VStores : d = <<>> \/ ceoExists(d)} }

VBodies ==
  { Body(fn, ln, hd, r, q, j) :
      fn \in {nameA, Absent, five},
      ln \in {nameB, Absent},
      hd \in {PastDate, FutureDate, BadDate, NoSuchDate, five, Absent},
      r \in {Str(CEO), Str(<<"c","e","o">>), Str(<<"C","e","O">>), Str(VP),
             Str(<<"L","A","C","K","E","Y","X">>), five, Absent},
      q \in {quoteQ, Str(<<>>), five, Absent},
      j \in {jokeJ, five, Absent} }

\* the verb and the :id of a request: a POST has no :id, a PUT may name any
Targets == {<<POST, 1>>} \cup {<<PUT, id>> : id \in Ids}

RequestInputs ==
  { [kind |-> "request", obj |-> b, fieldName |-> "", options |-> NoRecord,
     method |-> t[1], id |-> t[2], db |-> db] :
      b \in VBodies, t \in Targets, db \in VStores }

VInit ==
  /\ vIn \in FieldInputs \cup RequestInputs
  /\ DATABASE = vIn.db
  /\ inflight = [s \in Slots |-> IdleSlot]
  /\ res = NoResponse
  /\ vOut = NoOutput

\* validateField is called on the input
ApplyValidateField ==
  /\ vIn.kind = "field"
  /\ vOut = NoOutput
  /\ vOut' = validateField(vIn.obj, vIn.fieldName, vIn.options, DATABASE)
  /\ UNCHANGED <<DATABASE, inflight, res, vIn>>

\* the POST handler runs on the input; vOut keeps what its validation did
ApplyPost ==
  /\ vIn.kind = "request" /\ vIn.method = POST
  /\ vOut = NoOutput
  /\ PostHandler(vIn.obj)
  /\ vOut' = validateEmployee(vIn.obj, POST, DATABASE)
  /\ UNCHANGED vIn

\* the PUT handler runs on the input; vOut keeps what its validation did
ApplyPut ==
  /\ vIn.kind = "request" /\ vIn.method = PUT
  /\ vOut = NoOutput
  /\ PutHandler(vIn.id, vIn.obj)
  /\ vOut' = IF vIn.id \in DOMAIN DATABASE
             THEN validateEmployee(vIn.obj, PUT, DATABASE)
             ELSE [result |-> None, trace |-> <<[field |-> "", check |-> "none"]>>]
  /\ UNCHANGED vIn

VNext == ApplyValidateField \/ ApplyPost \/ ApplyPut

VSpec == VInit /\ [][VNext]_vars

\* the input has been applied
Applied == vOut # NoOutput

(***************************************************************************)
(* Properties of the server.                                               *)
(***************************************************************************)
\* the identifiers whose stored record holds the CEO role, in any letter case
CeoHolders(db) == {id \in DOMAIN db : toUpperCase(db[id].role.v) = CEO}

\* C1: when each create, replace and delete is handled to completion before
\* the next request starts, at most one stored record has the role CEO.
C1_AtMostOneCeo == Cardinality(CeoHolders(DATABASE)) <= 1

\* a replace that would have made a second CEO was refused: the store holds
\* the CEO and another record
C1_Witness ==
  /\ Cardinality(CeoHolders(DATABASE)) = 1
  /\ Cardinality(DOMAIN DATABASE) = 2
  /\ res.op = "PUT" /\ res.status = 400 /\ res.msg = CeoMsg

\* the bodies whose role is CEO in some letter case and that are otherwise
\* valid: a create of them passes validation while the store is empty
CeoBodies ==
  { b \in Bodies : /\ "role" \in DOMAIN b /\ b.role.t = "string"
                   /\ toUpperCase(b.role.v) = CEO
                   /\ validateEmployee(b, POST, <<>>).result = None }

\* C2: in every state a sequence of creates, replaces and deletes leads to, a
\* create with role CEO (in any letter case) and an otherwise valid payload is
\* refused with 400 and the uniqueness message when a stored record holds the
\* CEO role, leaving the store alone, and is accepted otherwise: no 400 is
\* sent, its chain starts, and the answer its chain sends is the 201.
C2_CeoCreateDecidedByStore ==
  Quiet =>
    \A b \in CeoBodies :
      \E out \in {routerPost(b, DATABASE)} :
        IF CeoHolders(DATABASE) # {}
        THEN /\ out.sent /\ out.res = Response("POST", 400, CeoMsg, 0)
             /\ out.db = DATABASE /\ out.chain = IdleSlot
        ELSE /\ ~out.sent /\ out.db = DATABASE
             /\ out.chain.pc = "getQuote" /\ out.chain.reqBody = b
             /\ postFinally(out.chain).status = 201

\* a create with role CEO was just refused with the uniqueness message while
\* a stored record holds the CEO role
C2_Witness ==
  /\ res = Response("POST", 400, CeoMsg, 0)
  /\ CeoHolders(DATABASE) # {}
  /\ Quiet

\* C3: a create whose payload fails validation is answered 400 with the
\* validation message; it leaves the store as it was and starts no chain, so
\* that no quote or joke is asked for.
C3_InvalidCreateChangesNothing ==
  Quiet =>
    \A b \in Bodies :
      \E out \in {routerPost(b, DATABASE)} :
        validateEmployee(b, POST, DATABASE).result # None =>
          /\ out.sent
          /\ out.res = Response("POST", 400, validateEmployee(b, POST, DATABASE).result, 0)
          /\ out.db = DATABASE
          /\ out.chain = IdleSlot

\* an invalid create was just answered while the store holds records and no
\* create is in flight
C3_Witness ==
  /\ res.op = "POST" /\ res.status = 400
  /\ DATABASE # <<>>
  /\ Quiet

\* C10: at the moment the 201 of a create is sent, the Location header names
\* an identifier under which the store holds the record just created, and a
\* GET of that identifier is answered 200 with that record.
C10_LocationIsStored ==
  \A s \in Slots :
    inflight[s].pc = "finally" =>
      \E r \in {postFinally(inflight[s])} :
        /\ r.status = 201 /\ r.op = "POST"
        /\ r.id \in DOMAIN DATABASE
        /\ getById(DATABASE, r.id).status = 200
        /\ getById(DATABASE, r.id).record = inflight[s].newEmployee

\* the 201 was sent and its Location is a key of the store
C10_Witness ==
  /\ res.op = "POST" /\ res.status = 201
  /\ res.id \in DOMAIN DATABASE
  /\ Quiet

(***************************************************************************)
(* Properties of the validation engine, over the inputs of VSpec.          *)
(***************************************************************************)
\* the input was a request and its handler got as far as validateEmployee
Validated == Applied /\ vIn.kind = "request" /\ vOut.trace[1].check # "none"

\* the input was one call of validateField
FieldApplied == Applied /\ vIn.kind = "field"

SchemaIndexes == 1..Len(employeeFieldValidations)
SchemaIndex(fieldName) ==
  CHOOSE i \in SchemaIndexes : employeeFieldValidations[i].fieldName = fieldName

\* what field i of the schema answers on its own for the request of vIn
FieldAnswer(i) ==
  validateField(vIn.obj, employeeFieldValidations[i].fieldName,
                withReqMethod(employeeFieldValidations[i].options, vIn.method), vIn.db).result

FailingFields == {i \in SchemaIndexes : FieldAnswer(i) # None}
FirstFailing == CHOOSE i \in FailingFields : \A j \in FailingFields : i <= j

\* C4: fields are validated in schema order and validation stops at the first
\* failing field: the 400 carries that field's message alone, every field up
\* to it was looked at in order, and no rule of a later field was evaluated.
C4_FirstFailureOnly ==
  Validated =>
    /\ \A k \in 1..(Len(vOut.trace) - 1) :
         SchemaIndex(vOut.trace[k].field) <= SchemaIndex(vOut.trace[k + 1].field)
    /\ IF FailingFields = {}
       THEN /\ vOut.result = None
            /\ res.status # 400
            /\ {SchemaIndex(vOut.trace[k].field) : k \in 1..Len(vOut.trace)} = SchemaIndexes
       ELSE /\ vOut.result = FieldAnswer(FirstFailing)
            /\ res.status = 400
            /\ res.msg = FieldAnswer(FirstFailing)
            /\ DATABASE = vIn.db
            /\ {SchemaIndex(vOut.trace[k].field) : k \in 1..Len(vOut.trace)} = 1..FirstFailing

\* a request with a missing firstName and a hireDate in the future was answered
C4_Witness ==
  /\ Validated
  /\ Cardinality(FailingFields) >= 2
  /\ SchemaIndex("hireDate") \in FailingFields
  /\ FirstFailing = SchemaIndex("firstName")
  /\ res.status = 400
  /\ res.msg = MissingMsg("firstName")

\* C5: an absent field is a "missing" failure when the rule resolves to
\* required; when it resolves to optional the field is valid and neither the
\* type, the enumeration nor the custom check is called.
C5_AbsentField ==
  (FieldApplied /\ vIn.fieldName \notin DOMAIN vIn.obj) =>
    /\ vOut.trace = <<"existence">>
    /\ vOut.result = IF isRequired(vIn.options) THEN MissingMsg(vIn.fieldName) ELSE None

\* an absent optional field with a type and a failing custom check configured
C5_Witness ==
  /\ FieldApplied
  /\ vIn.fieldName \notin DOMAIN vIn.obj
  /\ ~isRequired(vIn.options)
  /\ "dataType" \in DOMAIN vIn.options
  /\ "custom" \in DOMAIN vIn.options /\ vIn.options.custom = "fail"
  /\ vOut.result = None

\* the lower-cased verb of the methods the inputs use
VerbOf(method) ==
  CASE method = POST -> post
    [] method = PUT -> put
    [] method = <<"P","o","s","t">> -> post

\* the first four fields of the request are valid on their own
CoreValid == \A i \in 1..4 : FieldAnswer(i) = None

\* C6: with a per-verb mapping and the verb supplied, requiredness is the
\* mapping's entry for the lower-cased verb, required when the verb has no
\* entry; so quote and joke may be left out on POST and must be there on PUT.
C6_PerVerbRequired ==
  /\ (/\ FieldApplied
      /\ vIn.fieldName \notin DOMAIN vIn.obj
      /\ "required" \in DOMAIN vIn.options
      /\ vIn.options.required.k = "map"
      /\ "reqMethod" \in DOMAIN vIn.options)
     => LET verb == VerbOf(vIn.options.reqMethod)
            m == vIn.options.required.m
        IN vOut.result = IF verb \in DOMAIN m /\ ~m[verb]
                         THEN None ELSE MissingMsg(vIn.fieldName)
  /\ (Validated /\ CoreValid /\ vIn.method = POST
        /\ "quote" \notin DOMAIN vIn.obj /\ "joke" \notin DOMAIN vIn.obj)
     => vOut.result = None /\ res.status # 400
  /\ (Validated /\ CoreValid /\ vIn.method = PUT /\ "quote" \notin DOMAIN vIn.obj)
     => res.status = 400 /\ res.msg = MissingMsg("quote")
  /\ (Validated /\ CoreValid /\ vIn.method = PUT
        /\ "quote" \in DOMAIN vIn.obj /\ vIn.obj.quote.t = "string"
        /\ "joke" \notin DOMAIN vIn.obj)
     => res.status = 400 /\ res.msg = MissingMsg("joke")

\* a create without quote and joke went past validation
C6_Witness ==
  /\ Validated /\ CoreValid /\ vIn.method = POST
  /\ "quote" \notin DOMAIN vIn.obj /\ "joke" \notin DOMAIN vIn.obj
  /\ vOut.result = None
  /\ \E s \in Slots : inflight[s].pc = "getQuote"

\* the rule of vIn has a fixed boolean for `required`
BooleanRequired ==
  "required" \in DOMAIN vIn.options /\ vIn.options.required.k = "bool"

PresentApplied == FieldApplied /\ vIn.fieldName \in DOMAIN vIn.obj

\* how the rule of vIn is configured for matching case
CaseSensitive ==
  IF "allowedValuesCaseSensitive" \in DOMAIN vIn.options
  THEN vIn.options.allowedValuesCaseSensitive ELSE TRUE

\* each check of the rule of vIn taken alone on the field's value
TypeAnswer ==
  IF "dataType" \in DOMAIN vIn.options
  THEN validateFieldType(vIn.obj, vIn.fieldName, vIn.options.dataType) ELSE None
EnumAnswer ==
  IF "allowedValues" \in DOMAIN vIn.options
  THEN validateFieldValueEnum(vIn.obj, vIn.fieldName, vIn.options.allowedValues, CaseSensitive)
  ELSE None
CustomAnswer ==
  IF "custom" \in DOMAIN vIn.options
  THEN CustomApply(vIn.options.custom, vIn.fieldName, vIn.obj[vIn.fieldName], vIn.db)
  ELSE None

\* the checks of a trace, and the order they are to come in
CheckRank(check) ==
  CASE check = "existence" -> 0
    [] check = "type" -> 1
    [] check = "enum" -> 2
    [] check = "custom" -> 3

\* C8: on a present field the checks come in the order type, enumeration,
\* custom and stop at the first failure: the enumeration check is called only
\* when the type check passed, the custom predicate only when both passed, the
\* message is that of the first failing check, there is none when no check
\* fails; the role and hireDate predicates never receive a non-string value.
C8_CheckOrder ==
  /\ PresentApplied =>
       /\ \A k \in 1..(Len(vOut.trace) - 1) :
            CheckRank(vOut.trace[k]) < CheckRank(vOut.trace[k + 1])
       /\ "type" \in Range(vOut.trace) <=> "dataType" \in DOMAIN vIn.options
       /\ "enum" \in Range(vOut.trace) <=>
            ("allowedValues" \in DOMAIN vIn.options /\ TypeAnswer = None)
       /\ "custom" \in Range(vOut.trace) <=>
            ("custom" \in DOMAIN vIn.options /\ TypeAnswer = None /\ EnumAnswer = None)
       /\ vOut.result = IF TypeAnswer # None THEN TypeAnswer
                        ELSE IF EnumAnswer # None THEN EnumAnswer
                        ELSE CustomAnswer
  /\ Validated =>
       /\ \A k \in 1..Len(vOut.trace) :
            vOut.trace[k].check = "custom" => typeof(vIn.obj[vOut.trace[k].field]) = "string"
       /\ vOut.result # TypeErrorThrown
       /\ res.status # 500

\* a request whose role is a number was refused for the type of role
C8_Witness ==
  /\ Validated
  /\ "role" \in DOMAIN vIn.obj /\ typeof(vIn.obj.role) = "number"
  /\ res.status = 400
  /\ res.msg = TypeMsg("role", "string")
  /\ \E k \in 1..Len(vOut.trace) : vOut.trace[k] = [field |-> "role", check |-> "type"]

\* the enumeration check was reached on a string value
EnumReached ==
  /\ PresentApplied
  /\ "enum" \in Range(vOut.trace)
  /\ typeof(vIn.obj[vIn.fieldName]) = "string"

\* the enumeration check let the value through
EnumPassed == vOut.result.kind # "enum"

\* the three spellings the role enumeration must accept
CeoSpellings == {Str(CEO), Str(<<"c","e","o">>), Str(<<"C","e","O">>)}

\* C9: case-insensitive matching passes a string exactly when its lower-cased
\* form equals the lower-cased form of an allowed value ("ceo", "CEO" and
\* "CeO" pass against the role enumeration); case-sensitive matching, the
\* default, passes an exact match only; the message of a failure lists the
\* allowed values as configured.
C9_EnumMatching ==
  EnumReached =>
    LET value == vIn.obj[vIn.fieldName]
        allowed == vIn.options.allowedValues
    IN /\ ~CaseSensitive =>
            (EnumPassed <=> \E i \in 1..Len(allowed) :
                              /\ typeof(allowed[i]) = "string"
                              /\ toLowerCase(allowed[i].v) = toLowerCase(value.v))
       /\ (~CaseSensitive /\ allowed = roleAllowedValues /\ value \in CeoSpellings)
            => EnumPassed
       /\ CaseSensitive => (EnumPassed <=> \E i \in 1..Len(allowed) : allowed[i] = value)
       /\ (CaseSensitive /\ allowed = roleAllowedValues)
            => (EnumPassed <=> value \in {Str(CEO), Str(VP)})
       /\ ~EnumPassed => vOut.result = EnumMsg(vIn.fieldName, allowed)

\* "CeO" went through the case-insensitive role enumeration
C9_Witness ==
  /\ EnumReached
  /\ ~CaseSensitive
  /\ vIn.options.allowedValues = roleAllowedValues
  /\ vIn.obj[vIn.fieldName] = Str(<<"C","e","O">>)
  /\ vOut.result = None

(***************************************************************************)
(* Properties of the stored records.                                       *)
(***************************************************************************)
\* the creates whose record has just been stored and whose 201 is about to go
JustStored == {s \in Slots : inflight[s].pc = "finally"}

\* what a GET of the identifier in the Location header of slot s is answered
Fetched(s) == getById(DATABASE, postFinally(inflight[s]).id)

\* the strings the two calls can resolve with
QuoteOutcomes == {getRandomRonSwansonQuote(response) : response \in QuoteResponses}
JokeOutcomes == {getRandomDadJoke(response) : response \in JokeResponses}

\* C11 as stated: the record fetched after a create has, for every field of
\* the payload, the value the payload gave.
C11_RoundTripAsGiven ==
  \A s \in JustStored :
    /\ Fetched(s).status = 200
    /\ \A f \in DOMAIN inflight[s].reqBody : Fetched(s).record[f] = inflight[s].reqBody[f]

\* C11 amended: the record fetched after a create has the payload's firstName,
\* lastName and hireDate, the payload's role in upper case, and the quote and
\* the joke of the external calls, whether or not the payload had its own.
C11_RoundTrip ==
  \A s \in JustStored :
    \E b \in {inflight[s].reqBody}, got \in {Fetched(s)} :
      /\ got.status = 200
      /\ got.id = inflight[s].newId
      /\ DOMAIN got.record = {"firstName", "lastName", "hireDate", "role", "quote", "joke"}
      /\ got.record.firstName = b.firstName
      /\ got.record.lastName = b.lastName
      /\ got.record.hireDate = b.hireDate
      /\ got.record.role = Str(toUpperCase(b.role.v))
      /\ b.role = Str(<<"c","e","o">>) => got.record.role = Str(CEO)
      /\ got.record.quote \in QuoteOutcomes
      /\ got.record.joke \in JokeOutcomes

\* a create spelt "ceo" with a quote of its own has just been stored
C11_Witness ==
  \E s \in JustStored :
    /\ inflight[s].reqBody.role = Str(<<"c","e","o">>)
    /\ "quote" \in DOMAIN inflight[s].reqBody
    /\ Fetched(s).status = 200
    /\ Fetched(s).record.role = Str(CEO)
    /\ Fetched(s).record.quote # inflight[s].reqBody.quote

\* the input was a PUT and its handler has answered
PutApplied == Applied /\ vIn.kind = "request" /\ vIn.method = PUT

\* C12: a PUT for an identifier that is not stored is answered 404 before any
\* validation, valid payload or not, and a PUT of an invalid payload for a
\* stored identifier is answered 400 with the first validation error; neither
\* changes the store.
C12_PutRefusals ==
  PutApplied =>
    IF vIn.id \notin DOMAIN vIn.db
    THEN /\ res = Response("PUT", 404, None, vIn.id)
         /\ \A k \in 1..Len(vOut.trace) : vOut.trace[k].check = "none"
         /\ DATABASE = vIn.db
    ELSE FailingFields # {} =>
           /\ res = Response("PUT", 400, FieldAnswer(FirstFailing), 0)
           /\ DATABASE = vIn.db

\* an invalid payload was PUT to an identifier missing from a store that holds
\* another record
C12_Witness ==
  /\ PutApplied
  /\ vIn.id \notin DOMAIN vIn.db
  /\ vIn.db # <<>>
  /\ FailingFields # {}
  /\ res.status = 404
  /\ DATABASE = vIn.db

\* the input was a PUT that was answered 204
PutDone == PutApplied /\ res = Response("PUT", 204, None, 0)

\* the payload's fields as the claim has them stored: role in upper case, the
\* others as given
AsGiven(reqBody) ==
  [firstName |-> reqBody.firstName, lastName |-> reqBody.lastName,
   hireDate |-> reqBody.hireDate, role |-> Str(toUpperCase(reqBody.role.v)),
   quote |-> reqBody.quote, joke |-> reqBody.joke]

\* C13: a PUT answered 204 has stored, under the identifier asked, the
\* payload's firstName, lastName, hireDate, quote and joke as given and its
\* role in upper case; the stored identifiers are the same and every other
\* record is unchanged.
C13_PutOverwrites ==
  PutDone =>
    /\ DOMAIN DATABASE = DOMAIN vIn.db
    /\ \A other \in DOMAIN vIn.db \ {vIn.id} : DATABASE[other] = vIn.db[other]
    /\ DATABASE[vIn.id] = AsGiven(vIn.obj)

\* a PUT whose quote is the empty string was answered 204 and the stored
\* record has no quote
C13_Witness ==
  /\ PutDone
  /\ vIn.obj.quote = Str(<<>>)
  /\ "quote" \notin DOMAIN DATABASE[vIn.id]
  /\ "joke" \in DOMAIN DATABASE[vIn.id]

\* the PUT of vIn is aimed at the record that holds the CEO role, asks for the
\* CEO role, and nothing else can be held against its payload
PutOnCeoItself ==
  /\ PutApplied
  /\ vIn.id \in DOMAIN vIn.db
  /\ vIn.db[vIn.id].role = Str(CEO)
  /\ "role" \in DOMAIN vIn.obj
  /\ typeof(vIn.obj.role) = "string"
  /\ toUpperCase(vIn.obj.role.v) = CEO
  /\ \A i \in SchemaIndexes \ {SchemaIndex("role")} : FieldAnswer(i) = None

\* C14: the uniqueness check does not count the record being replaced: a PUT
\* on the record that holds the CEO role, with an otherwise valid payload whose
\* role is CEO, is answered 204 and not refused with the uniqueness message.
C14_CeoMayBeReplaced ==
  PutOnCeoItself =>
    /\ res.status = 204
    /\ res.msg # CeoMsg
    /\ DATABASE[vIn.id].role = Str(CEO)

\* the PUT on the CEO's own record was refused with the uniqueness message
C14_Witness ==
  /\ PutOnCeoItself
  /\ res = Response("PUT", 400, CeoMsg, 0)
  /\ DATABASE = vIn.db

\* C15: a DELETE of any identifier, stored or not, is answered 204; after it
\* the identifier is not stored and every other record is as before; a second
\* DELETE of the same identifier is answered 204 again and changes nothing.
C15_DeleteIdempotent ==
  \A id \in Ids :
    \E once \in {routerDelete(id, DATABASE)} :
      /\ once.res = Response("DELETE", 204, None, 0)
      /\ DOMAIN once.db = DOMAIN DATABASE \ {id}
      /\ \A other \in DOMAIN once.db : once.db[other] = DATABASE[other]
      /\ \E twice \in {routerDelete(id, once.db)} :
           /\ twice.res = Response("DELETE", 204, None, 0)
           /\ twice.db = once.db

\* a DELETE was answered while one record was stored and an identifier free
C15_Witness ==
  /\ res = Response("DELETE", 204, None, 0)
  /\ Cardinality(DOMAIN DATABASE) = 1
  /\ Quiet

(***************************************************************************)
(* Properties of the create chain.                                         *)
(***************************************************************************)
\* C16: every create that passed validation eventually has its record stored
\* and is answered 201, whatever the two external calls do: answer well,
\* answer with an error or a malformed body, or never answer.
C16_EveryCreateAnswered ==
  \A s \in Slots :
    (inflight[s].pc = "getQuote")
      ~> (inflight[s].pc = "idle" /\ res.op = "POST" /\ res.status = 201)

\* a create waits on a call that will never be answered: nothing is stored for
\* it and no answer was sent
C16_Witness ==
  \E s \in Slots :
    /\ inflight[s].pc = "pending"
    /\ inflight[s].newId = 0
    /\ DATABASE = <<>>
    /\ res = NoResponse

\* C17: also when requests overlap, a create or replace asking for the CEO
\* role that is validated while an earlier validated CEO create still waits
\* for its external calls never leaves two stored records with the CEO role.
C17_OneCeoWhenOverlapping ==
  \A i, j \in DOMAIN DATABASE :
    (DATABASE[i].role = Str(CEO) /\ DATABASE[j].role = Str(CEO)) => i = j

\* two creates asking for the CEO role, both validated before either was
\* stored, have both been stored
C17_Witness ==
  /\ Cardinality(CeoHolders(DATABASE)) = 2
  /\ \E s \in JustStored : inflight[s].newEmployee.role = Str(CEO)

\* the creates that wait for one of their two calls
Waiting == {s \in Slots : inflight[s].pc \in {"getQuote", "getJoke"}}

\* a step that stores a record under an identifier that was free
Inserts(id) == id \notin DOMAIN DATABASE /\ id \in DOMAIN DATABASE'

\* C18: a record enters the store only in the step in which the joke call of
\* its create resolves, the quote call having resolved before; the record
\* stored has a quote and a joke, each the string its call returned or the
\* fallback of that call, and a quote or joke of the payload does not survive.
C18_StoredAfterBothCalls ==
  [][\A id \in Ids :
       Inserts(id) =>
         \E s \in Slots :
           /\ inflight[s].pc = "getJoke"
           /\ inflight'[s].pc = "finally"
           /\ inflight'[s].newId = id
           /\ "quote" \in DOMAIN inflight[s].newEmployee
           /\ DATABASE'[id].quote = inflight[s].newEmployee.quote
           /\ DATABASE'[id].quote \in {Str(<<"Q">>), Str(NoQuoteFound)}
           /\ DATABASE'[id].joke \in {Str(<<"J">>), Str(NoJokeFound)}
           /\ DATABASE'[id].quote \notin {quoteQ, Str(<<>>)}
           /\ DATABASE'[id].joke # jokeJ]_vars

\* a create whose payload had a quote and a joke of its own was stored with
\* the fallback quote and the joke the service returned
C18_Witness ==
  \E s \in JustStored :
    /\ "quote" \in DOMAIN inflight[s].reqBody
    /\ "joke" \in DOMAIN inflight[s].reqBody
    /\ DATABASE[inflight[s].newId].quote = Str(NoQuoteFound)
    /\ DATABASE[inflight[s].newId].joke = Str(<<"J">>)

\* C19: the step that stores the record of a create stores it under an
\* identifier that was not in the store: the store has exactly one record
\* more, and every record it had is still there, unchanged.
C19_FreshIdentifier ==
  [][\A s \in Slots :
       (inflight[s].pc = "getJoke" /\ inflight'[s].pc = "finally") =>
         /\ inflight'[s].newId \notin DOMAIN DATABASE
         /\ DOMAIN DATABASE' = DOMAIN DATABASE \cup {inflight'[s].newId}
         /\ Cardinality(DOMAIN DATABASE') = Cardinality(DOMAIN DATABASE) + 1
         /\ \A other \in DOMAIN DATABASE : DATABASE'[other] = DATABASE[other]]_vars

\* a create has just been stored next to a record that was there before
C19_Witness ==
  \E s \in JustStored :
    /\ Cardinality(DOMAIN DATABASE) = 2
    /\ \E other \in DOMAIN DATABASE :
         other # inflight[s].newId /\ DATABASE[other] # DATABASE[inflight[s].newId]

\* C20: every stored record's role is one of "CEO", "VP", "MANAGER", "LACKEY"
\* in upper case, whatever the case the payloads of the creates and replaces
\* spelt it in.
C20_RolesUpperCase ==
  \A id \in DOMAIN DATABASE :
    DATABASE[id].role \in {Str(<<"C","E","O">>), Str(<<"V","P">>),
                           Str(<<"M","A","N","A","G","E","R">>),
                           Str(<<"L","A","C","K","E","Y">>)}

\* a create that spelt the role "ceo" has just been stored as "CEO"
C20_Witness ==
  \E s \in JustStored :
    /\ inflight[s].reqBody.role = Str(<<"c","e","o">>)
    /\ DATABASE[inflight[s].newId].role = Str(<<"C","E","O">>)

=============================================================================
